---- MODULE Spec2Model ----
(***************************************************************************)
(* The evaluation core of the DreamBerd interpreter                        *)
(* (src/dreamberd/interpreter/interpreter.py).                             *)
(*                                                                         *)
(* The functions of the module are the operations of the state machine:    *)
(* each action is one call of one function, made on the interpreter state  *)
(* the function receives (the scope stack `namespaces`, the async queue    *)
(* `async_statements`, the watcher registry `name_watchers`).  Python      *)
(* lists and dicts are objects: scopes and statement lists live in heaps   *)
(* (`scopes`, `code_lists`) and are referred to by their index, so that    *)
(* two references to one object stay aliases.  An exception that leaves    *)
(* the called function is fatal: nothing in the module catches it, apart   *)
(* from the typed InterpretationError of a builtin call.                   *)
(***************************************************************************)
EXTENDS Integers, Sequences, FiniteSets, TLC

VARIABLES namespaces, scopes, async_statements, code_lists, name_watchers, result

vars == <<namespaces, scopes, async_statements, code_lists, name_watchers, result>>

\* ------------------------------------------------------------------ bounds
\* the longest async queue, the longest history of a variable, the widest
\* whitespace around an operator
MaxQueue == 2
MaxHistory == 2
MaxWidth == 2

\* ------------------------------------------------------------ value model
\* dreamberd.interpreter.builtin is imported by the module; its classes are
\* used here through the fields the module reads (value, args, code,
\* is_async, arg_count, function, prev_values).
Undefined == [t |-> "Undefined"]
Number(n) == [t |-> "Number", value |-> n]
String(s) == [t |-> "String", value |-> s]
Keyword(s) == [t |-> "Keyword", value |-> s]
Function(a, c, isAsync) == [t |-> "Function", args |-> a, code |-> c, is_async |-> isAsync]
Builtin(n, fn) == [t |-> "Builtin", arg_count |-> n, function |-> fn]
ListValue(vs) == [t |-> "List", values |-> vs]
BareValue == [t |-> "Value"]

\* Python's None, as the result of a lookup, of a resolution, of a function
None == [t |-> "None"]

\* A binding of a scope: Name(name, value) or Variable(name, prev_values).
NoBinding == [kind |-> "absent"]
Name(v) == [kind |-> "Name", value |-> v]
Variable(hist) == [kind |-> "Variable", prev_values |-> hist]

\* binding.value: a Name holds its value; a Variable's current value is the
\* first entry of its history (revision index 0 is the current one).
ValueOf(b) == IF b.kind = "Name" THEN b.value ELSE b.prev_values[1]

\* ------------------------------------------------------------------ texts
\* The keyword spellings and literal texts of the model, letter by letter.
Chars(s) ==
    CASE s = "if" -> <<"i", "f">>
      [] s = "when" -> <<"w", "h", "e", "n">>
      [] s = "function" -> <<"f", "u", "n", "c", "t", "i", "o", "n">>
      [] s = "fn" -> <<"f", "n">>
      [] s = "async" -> <<"a", "s", "y", "n", "c">>
      [] s = "await" -> <<"a", "w", "a", "i", "t">>
      [] s = "next" -> <<"n", "e", "x", "t">>
      [] s = "const" -> <<"c", "o", "n", "s", "t">>
      [] s = "var" -> <<"v", "a", "r">>
      [] s = "return" -> <<"r", "e", "t", "u", "r", "n">>
      [] s = "class" -> <<"c", "l", "a", "s", "s">>
      [] s = "1" -> <<"1">>
      [] s = "2" -> <<"2">>
      [] s = "hi" -> <<"h", "i">>
      [] OTHER -> <<"?">>

KeywordNames == {"if", "when", "function", "fn", "async", "await", "next",
                 "const", "var", "return", "class"}
UserNames == {"k", "x", "f", "h", "g", "a", "print"}
Idents == KeywordNames \cup UserNames

\* ----------------------------------------------------- namespace lookup
\* get_value_from_namespaces for a name without a dot: `for ns in
\* namespaces` runs from index 0, the scope main() created first, towards
\* the scope pushed last; ns.get(val) of the first scope that binds the
\* name is returned.  stack is a sequence of scope ids, heap the scopes.
RECURSIVE ScanScopes(_, _, _, _)
ScanScopes(val, stack, heap, i) ==
    IF i > Len(stack) THEN NoBinding
    ELSE IF val \in DOMAIN heap[stack[i]] /\ heap[stack[i]][val] # NoBinding
         THEN heap[stack[i]][val]
         ELSE ScanScopes(val, stack, heap, i + 1)

get_value_from_namespaces(val, stack, heap) == ScanScopes(val, stack, heap, 1)

\* ------------------------------------------------------------ statements
\* One candidate interpretation of a source statement (the classes of
\* dreamberd.processor.syntax_tree, by the fields the module reads).  The
\* body of a function or class is the id of its statement list.
Conditional(kw) == [type |-> "Conditional", keyword |-> kw]
WhenStatement(kw) == [type |-> "WhenStatement", keyword |-> kw]
ReturnStatement(kw, e) == [type |-> "ReturnStatement", keyword |-> kw, expression |-> e]
ClassDeclaration(kw, n, c) == [type |-> "ClassDeclaration", keyword |-> kw, name |-> n, code |-> c]
FunctionDefinition(kws, n, a, c, isAsync) ==
    [type |-> "FunctionDefinition", keywords |-> kws, name |-> n, args |-> a,
     code |-> c, is_async |-> isAsync]
VariableDeclaration(mods, n, e) ==
    [type |-> "VariableDeclaration", modifiers |-> mods, name |-> n, expression |-> e]
VariableAssignment(n, e) == [type |-> "VariableAssignment", name |-> n, expression |-> e]
ExpressionStatement(e) == [type |-> "ExpressionStatement", expression |-> e]

\* ------------------------------------------------------ statement resolver
\* instance_to_keywords of determine_statement_type
instance_to_keywords(type) ==
    CASE type = "Conditional" -> {"if"}
      [] type = "WhenStatement" -> {"when"}
      [] type = "AfterStatement" -> {"after"}
      [] type = "ClassDeclaration" -> {"class", "className"}
      [] type = "ReturnStatement" -> {"return"}
      [] type = "DeleteStatement" -> {"delete"}
      [] OTHER -> {}

\* re.match of a pattern made of optional letters (x?y?z?) against s, from
\* the start of s: each letter of the pattern in turn consumes the next
\* letter of s when it is that letter.  The value is the end of the match;
\* re.match yields a match object whenever there is a match, the empty one
\* included.
RECURSIVE MatchOptional(_, _, _, _)
MatchOptional(pat, s, p, pos) ==
    IF p > Len(pat) THEN pos - 1
    ELSE IF pos <= Len(s) /\ s[pos] = pat[p]
         THEN MatchOptional(pat, s, p + 1, pos + 1)
         ELSE MatchOptional(pat, s, p + 1, pos)

\* the truth value of re.match(r"f?u?n?c?t?i?o?n?", spelling): that of a
\* match object, whatever its length
re_match_function(spelling) ==
    MatchOptional(Chars("function"), Chars(spelling), 1, 1) >= 0

\* `val is not None and isinstance(val.value, DreamberdKeyword)`
IsKeywordBinding(b) == b # NoBinding /\ ValueOf(b).t = "Keyword"

\* the test determine_statement_type makes on one candidate in its first loop
AcceptsKeywordAnchored(st, stack, heap) ==
    LET look(n) == get_value_from_namespaces(n, stack, heap)
        kw == instance_to_keywords(st.type)
    IN  IF kw # {}
        THEN IsKeywordBinding(look(st.keyword)) /\ ValueOf(look(st.keyword)).value \in kw
        ELSE IF st.type = "FunctionDefinition"
        THEN IF Len(st.keywords) = 1
             THEN /\ IsKeywordBinding(look(st.keywords[1]))
                  /\ re_match_function(ValueOf(look(st.keywords[1])).value)
             ELSE IF Len(st.keywords) = 2
             THEN /\ IsKeywordBinding(look(st.keywords[1]))
                  /\ IsKeywordBinding(look(st.keywords[2]))
                  /\ re_match_function(ValueOf(look(st.keywords[1])).value)
                  /\ ValueOf(look(st.keywords[2])).value = "async"
             ELSE FALSE
        ELSE IF st.type = "VariableDeclaration"
        THEN IF Len(st.modifiers) = 2
             THEN \A i \in 1..2 :
                    /\ IsKeywordBinding(look(st.modifiers[i]))
                    /\ ValueOf(look(st.modifiers[i])).value \in {"const", "var"}
             ELSE IF Len(st.modifiers) = 3
             THEN \A i \in 1..3 :
                    /\ IsKeywordBinding(look(st.modifiers[i]))
                    /\ ValueOf(look(st.modifiers[i])).value = "const"
             ELSE FALSE
        ELSE FALSE

\* the first candidate of the tuple, from index i on, that satisfies test
RECURSIVE FirstThat(_, _, _)
FirstThat(possible, test(_), i) ==
    IF i > Len(possible) THEN None
    ELSE IF test(possible[i]) THEN possible[i]
    ELSE FirstThat(possible, test, i + 1)

\* determine_statement_type, were its fallback to take the first assignment
\* or bare-expression candidate in tuple order
determine_statement_type_in_tuple_order(possible, stack, heap) ==
    LET anchored(st) == AcceptsKeywordAnchored(st, stack, heap)
        isFallback(st) == st.type \in {"VariableAssignment", "ExpressionStatement"}
    IN  IF FirstThat(possible, anchored, 1) # None
        THEN FirstThat(possible, anchored, 1)
        ELSE FirstThat(possible, isFallback, 1)

determine_statement_type(possible, stack, heap) ==
    LET anchored(st) == AcceptsKeywordAnchored(st, stack, heap)
        isAssignment(st) == st.type = "VariableAssignment"
        isExpression(st) == st.type = "ExpressionStatement"
    IN  IF FirstThat(possible, anchored, 1) # None
        THEN FirstThat(possible, anchored, 1)
        ELSE IF FirstThat(possible, isAssignment, 1) # None
        THEN FirstThat(possible, isAssignment, 1)
        ELSE FirstThat(possible, isExpression, 1)

\* ------------------------------------------------------------ expressions
\* The nodes of an expression tree (dreamberd.processor.expression_tree).
ValueNode(tok) == [node |-> "ValueNode", name_or_value |-> tok]
FunctionNode(n, a) == [node |-> "FunctionNode", name |-> n, args |-> a]
ListNode(vs) == [node |-> "ListNode", values |-> vs]

\* The interpreter state a function receives and mutates, as one record.
\* native_calls lists the argument tuples the native callables received.
State(ns, sc, aq, cl, nw) ==
    [namespaces |-> ns, scopes |-> sc, async_statements |-> aq,
     code_lists |-> cl, name_watchers |-> nw, native_calls |-> <<>>]

\* The outcome of a call: the state it leaves, the value it returns, and the
\* exception that left it ("" when it returned).
Returned(st, v) == [st |-> st, value |-> v, err |-> ""]
Raised(st, e) == [st |-> st, value |-> None, err |-> e]

DigitValue(c) ==
    CASE c = "0" -> 0 [] c = "1" -> 1 [] c = "2" -> 2 [] c = "3" -> 3 [] c = "4" -> 4
      [] c = "5" -> 5 [] c = "6" -> 6 [] c = "7" -> 7 [] c = "8" -> 8 [] c = "9" -> 9
      [] OTHER -> -1

RECURSIVE IntOfDigits(_, _)
IntOfDigits(cs, n) ==
    IF n = 0 THEN 0 ELSE 10 * IntOfDigits(cs, n - 1) + DigitValue(cs[n])

\* determine_non_name_value for a text without a dot: a Number when every
\* letter is a digit, a String otherwise.
determine_non_name_value(tok) ==
    LET cs == Chars(tok)
    IN  IF Len(cs) > 0 /\ \A i \in 1..Len(cs) : DigitValue(cs[i]) >= 0
        THEN Number(IntOfDigits(cs, Len(cs)))
        ELSE String(tok)

\* A native callable of the builtin library applied to the arguments it
\* receives; print returns None.
NativeCall(fn, args) == None

\* interpret_statement called with five positional arguments (lines 610 and
\* 617): the function has six required parameters, filename, code,
\* statement, namespaces, async_statements and name_watchers, so the call
\* raises TypeError before the body of interpret_statement runs.
interpret_statement_5_args(statement, stack, st) == Raised(st, "TypeError")

\* interpret_code_statements on the statement list with id `code`: an empty
\* list leaves the while loop at once and the function returns None.
\* Otherwise statements[0] is resolved; no candidate is an
\* InterpretationError, a ReturnStatement is passed over, and the statement
\* goes to interpret_statement by the call of line 610, whose exception
\* leaves the function.
interpret_code_statements(code, stack, st) ==
    LET statements == st.code_lists[code]
    IN  IF Len(statements) = 0 THEN Returned(st, None)
        ELSE LET statement == determine_statement_type(statements[1], stack, st.scopes)
             IN  IF statement = None THEN Raised(st, "InterpretationError")
                 ELSE interpret_statement_5_args(statement, stack, st)

\* {name: Name(name, arg) for name, arg in zip(func.args, args)}
ParameterScope(params, args) ==
    [n \in Idents |->
        IF \E i \in 1..Len(params) : i <= Len(args) /\ params[i] = n
        THEN Name(args[CHOOSE i \in 1..Len(params) :
                          /\ i <= Len(args) /\ params[i] = n
                          /\ \A j \in 1..Len(params) :
                                (j <= Len(args) /\ params[j] = n) => j <= i])
        ELSE NoBinding]

Front(seq) == SubSeq(seq, 1, Len(seq) - 1)
Prefix(seq, n) == SubSeq(seq, 1, IF n < Len(seq) THEN n ELSE Len(seq))

\* the code of register_async_function after its arguments are evaluated
RegisterEntry(func, args, st) ==
    IF Len(func.args) < Len(args) THEN Raised(st, "InterpretationError")
    ELSE LET id == Len(st.scopes) + 1
             function_namespaces == Append(st.namespaces, id)
         IN  Returned([st EXCEPT
                 !.scopes = Append(@, ParameterScope(func.args, args)),
                 !.async_statements =
                     Append(@, [code |-> func.code, ns |-> function_namespaces])],
                 None)

\* the call of a builtin, were its arg_count not tested
call_builtin_without_arity_test(func, args, st) ==
    LET received == Prefix(args, func.arg_count)
        ret == NativeCall(func.function, received)
    IN  Returned([st EXCEPT !.native_calls = Append(@, received)],
                 IF ret = None THEN Undefined ELSE ret)

\* the call of a builtin in evaluate_normal_function: more arguments than
\* arg_count is an error; otherwise the native callable receives
\* args[:arg_count] and `None or DreamberdUndefined()` is Undefined.
call_builtin(func, args, st) ==
    IF func.arg_count < Len(args) THEN Raised(st, "InterpretationError")
    ELSE LET received == Prefix(args, func.arg_count)
             ret == NativeCall(func.function, received)
         IN  Returned([st EXCEPT !.native_calls = Append(@, received)],
                      IF ret = None THEN Undefined ELSE ret)

\* evaluate_normal_function after its arguments are evaluated, were the
\* scope it pushed left on the stack
CallEvaluated_without_pop(func, args, st) ==
    IF func.t = "Builtin"
    THEN call_builtin(func, args, st)
    ELSE IF Len(func.args) < Len(args) THEN Raised(st, "InterpretationError")
    ELSE LET id == Len(st.scopes) + 1
             pushed == [st EXCEPT !.scopes = Append(@, ParameterScope(func.args, args)),
                                  !.namespaces = Append(@, id)]
             body == interpret_code_statements(func.code, pushed.namespaces, pushed)
         IN  IF body.err # "" THEN body
             ELSE Returned(body.st, IF body.value = None THEN Undefined ELSE body.value)

\* the code of evaluate_normal_function after its arguments are evaluated.
\* The scope pushed for a user function is popped when the body returns;
\* nothing else refers to it, so it leaves the heap with the pop.  An
\* exception in the body skips the pop.
CallEvaluated(func, args, st) ==
    IF func.t = "Builtin"
    THEN call_builtin(func, args, st)
    ELSE IF Len(func.args) < Len(args) THEN Raised(st, "InterpretationError")
    ELSE LET id == Len(st.scopes) + 1
             pushed == [st EXCEPT !.scopes = Append(@, ParameterScope(func.args, args)),
                                  !.namespaces = Append(@, id)]
             body == interpret_code_statements(func.code, pushed.namespaces, pushed)
         IN  IF body.err # "" THEN body
             ELSE Returned([body.st EXCEPT !.namespaces = Front(@),
                                           !.scopes = Front(@)],
                           IF body.value = None THEN Undefined ELSE body.value)

\* evaluate_expression.  EvaluateAll is the list comprehension that
\* evaluates the arguments of a call, or the elements of a list, in order;
\* the first exception ends it.
RECURSIVE evaluate_expression(_, _), EvaluateAll(_, _, _, _)
EvaluateAll(exprs, i, st, acc) ==
    IF i > Len(exprs) THEN Returned(st, acc)
    ELSE LET r == evaluate_expression(exprs[i], st)
         IN  IF r.err # "" THEN r
             ELSE EvaluateAll(exprs, i + 1, r.st, Append(acc, r.value))

\* evaluate_normal_function
evaluate_normal_function(expr, func, st) ==
    LET a == EvaluateAll(expr.args, 1, st, <<>>)
    IN  IF a.err # "" THEN a ELSE CallEvaluated(func, a.value, a.st)

\* register_async_function, were it to run the body at call time
register_async_function_runs_body(expr, func, st) == evaluate_normal_function(expr, func, st)

\* register_async_function
register_async_function(expr, func, st) ==
    LET a == EvaluateAll(expr.args, 1, st, <<>>)
    IN  IF a.err # "" THEN a ELSE RegisterEntry(func, a.value, a.st)

\* the FunctionNode case of evaluate_expression once the callee is known:
\* a non-function is an error, an async user function that is not awaited
\* is registered and the call is Undefined, anything else is called.
CallFunction(expr, func, force_execute_sync, st) ==
    IF func = NoBinding THEN Raised(st, "InterpretationError")
    ELSE IF ValueOf(func).t \notin {"Builtin", "Function"}
    THEN Raised(st, "InterpretationError")
    ELSE IF ValueOf(func).t = "Function" /\ ValueOf(func).is_async /\ ~force_execute_sync
    THEN LET r == register_async_function(expr, ValueOf(func), st)
         IN  IF r.err # "" THEN r ELSE Returned(r.st, Undefined)
    ELSE evaluate_normal_function(expr, ValueOf(func), st)

evaluate_expression(expr, st) ==
    LET look(n) == get_value_from_namespaces(n, st.namespaces, st.scopes)
    IN  IF expr.node = "FunctionNode"
        THEN LET func == look(expr.name)
             IN  IF func = NoBinding THEN Raised(st, "InterpretationError")
                 ELSE IF ValueOf(func).t = "Keyword" /\ ValueOf(func).value = "await"
                 THEN IF Len(expr.args) # 1 THEN Raised(st, "InterpretationError")
                      ELSE IF expr.args[1].node # "FunctionNode"
                      THEN Raised(st, "InterpretationError")
                      ELSE CallFunction(expr.args[1], look(expr.args[1].name), TRUE, st)
                 ELSE CallFunction(expr, func, FALSE, st)
        ELSE IF expr.node = "ListNode"
        THEN LET r == EvaluateAll(expr.values, 1, st, <<>>)
             IN  IF r.err # "" THEN r ELSE Returned(r.st, ListValue(r.value))
        ELSE IF expr.node = "ValueNode"
        THEN IF look(expr.name_or_value) # NoBinding
             THEN Returned(st, ValueOf(look(expr.name_or_value)))
             ELSE Returned(st, determine_non_name_value(expr.name_or_value))
        ELSE Returned(st, BareValue)

\* ------------------------------------------------------- next / await next
\* handle_next_expressions: the expression with every `next X` and `await
\* next X` replaced by X, the names under a bare next and those under an
\* awaited next.  Only the callee of a FunctionNode is looked up.
NextOutcome(e, nn, an, err) == [expr |-> e, normal_nexts |-> nn, async_nexts |-> an, err |-> err]

RECURSIVE handle_next_expressions(_, _, _)
handle_next_expressions(expr, stack, heap) ==
    LET look(n) == get_value_from_namespaces(n, stack, heap)
        same == NextOutcome(expr, {}, {}, "")
        fatal == NextOutcome(expr, {}, {}, "InterpretationError")
        inner(es) == [i \in 1..Len(es) |-> handle_next_expressions(es[i], stack, heap)]
        collect(rs, rebuilt) ==
            IF \E i \in DOMAIN rs : rs[i].err # "" THEN fatal
            ELSE NextOutcome(rebuilt,
                             UNION { rs[i].normal_nexts : i \in DOMAIN rs },
                             UNION { rs[i].async_nexts : i \in DOMAIN rs }, "")
        oneValue(args) == Len(args) = 1 /\ args[1].node = "ValueNode"
    IN  IF expr.node = "FunctionNode"
        THEN LET func == look(expr.name)
             IN  IF func = NoBinding THEN fatal
                 ELSE IF ValueOf(func).t = "Keyword" /\ ValueOf(func).value = "next"
                 THEN IF ~oneValue(expr.args) THEN fatal
                      ELSE NextOutcome(expr.args[1], {expr.args[1].name_or_value}, {}, "")
                 ELSE IF ValueOf(func).t = "Keyword" /\ ValueOf(func).value = "await"
                 THEN IF Len(expr.args) # 1 \/ expr.args[1].node # "FunctionNode"
                      THEN fatal
                      ELSE LET inner_expr == expr.args[1]
                               inner_func == look(inner_expr.name)
                           IN  IF inner_func = NoBinding THEN fatal
                               ELSE IF /\ ValueOf(inner_func).t = "Keyword"
                                       /\ ValueOf(inner_func).value = "next"
                               THEN IF ~oneValue(inner_expr.args) THEN fatal
                                    ELSE NextOutcome(inner_expr.args[1], {},
                                                     {inner_expr.args[1].name_or_value}, "")
                               ELSE same
                 ELSE LET rs == inner(expr.args)
                      IN  collect(rs, [expr EXCEPT !.args = [i \in DOMAIN rs |-> rs[i].expr]])
        ELSE IF expr.node = "ListNode"
        THEN LET rs == inner(expr.values)
             IN  collect(rs, [expr EXCEPT !.values = [i \in DOMAIN rs |-> rs[i].expr]])
        ELSE same

\* get_state_watcher: None for a name that is not bound, otherwise the
\* length of the binding's prev_values (0 for an empty one).  -1 stands for
\* None.  A Name carries no history: reading its prev_values raises.
\* (-2 stands for that AttributeError.)
get_state_watcher(b) ==
    IF b = NoBinding THEN -1 ELSE IF b.kind = "Name" THEN -2 ELSE Len(b.prev_values)

\* The part wait_for_async_nexts and adjust_for_normal_nexts share (lines
\* 486-509 and 530-551) for the names under an awaited next: the revision
\* count of each is read (start_len), the polling loop `while start_len !=
\* curr_len` runs while the count read again differs from start_len, and
\* the value of each name at index start_len of its history is fetched.
\* Nothing runs between the two reads, so the loop body never runs (polls
\* is 0); an unbound name is an InterpretationError, and index start_len of
\* a history of start_len values is an IndexError.
AwaitNexts(async_nexts, stack, heap) ==
    LET look(n) == get_value_from_namespaces(n, stack, heap)
        start_len(n) == get_state_watcher(look(n))
        curr_len(n) == get_state_watcher(look(n))
        waits == [n \in async_nexts |->
                    [start_len |-> start_len(n), curr_len |-> curr_len(n),
                     polls |-> IF start_len(n) # curr_len(n) THEN 1 ELSE 0]]
        met == IF async_nexts = {} THEN None ELSE CHOOSE n \in async_nexts : TRUE
    IN  [wait |-> waits,
         err |-> IF \E n \in async_nexts : look(n) # NoBinding /\ look(n).kind = "Name"
                 THEN "AttributeError"
                 ELSE IF async_nexts = {} THEN ""
                 ELSE IF look(met) = NoBinding THEN "InterpretationError"
                 ELSE IF start_len(met) + 1 > Len(look(met).prev_values) THEN "IndexError"
                 ELSE ""]

NoWait == [n \in {} |-> 0]
StatementOutcome(st, err, wait) == [st |-> st, value |-> None, err |-> err, wait |-> wait]

\* wait_for_async_nexts
wait_for_async_nexts(async_nexts, stack, st) ==
    LET w == AwaitNexts(async_nexts, stack, st.scopes)
    IN  StatementOutcome(st, w.err, w.wait)

\* adjust_for_normal_nexts: after the awaited names, each name under a bare
\* next whose revision count has not moved since it was read at line 491
\* (none has: nothing runs in between) stays in normal_nexts; the statement
\* gets the substituted expression and the registry entry of each such name
\* is set to ([statement], normal_nexts, namespaces), namespaces being the
\* caller's list itself.
adjust_for_normal_nexts(statement, expr, async_nexts, normal_nexts, stack, st) ==
    LET heap == st.scopes
        look(n) == get_value_from_namespaces(n, stack, heap)
        w == AwaitNexts(async_nexts, stack, heap)
        parked == [statement EXCEPT !.expression = expr]
        entry == [statements |-> <<parked>>, pending |-> normal_nexts, namespaces |-> stack]
    IN  IF \E n \in normal_nexts : look(n) # NoBinding /\ look(n).kind = "Name"
        THEN StatementOutcome(st, "AttributeError", w.wait)
        ELSE IF w.err # "" THEN StatementOutcome(st, w.err, w.wait)
        ELSE StatementOutcome(
                [st EXCEPT !.name_watchers =
                    [n \in Idents |-> IF n \in normal_nexts THEN entry ELSE @[n]]],
                "", w.wait)

\* ---------------------------------------------------- statement execution
\* interpret_statement, called with its six arguments.  A function
\* definition binds the name in the last scope of the stack; a variable
\* declaration parks on its bare nexts, else waits on its awaited nexts,
\* else calls add_new_variable, a name the module does not define; a class
\* declaration calls interpret_class_code_statements with four of its five
\* arguments; no other statement type has a case.
interpret_statement(statement, stack, st) ==
    IF statement.type = "FunctionDefinition"
    THEN StatementOutcome(
            [st EXCEPT !.scopes[stack[Len(stack)]][statement.name] =
                Name(Function(statement.args, statement.code, statement.is_async))],
            "", NoWait)
    ELSE IF statement.type = "VariableDeclaration"
    THEN LET h == handle_next_expressions(statement.expression, stack, st.scopes)
         IN  IF h.err # "" THEN StatementOutcome(st, h.err, NoWait)
             ELSE IF h.normal_nexts # {}
             THEN adjust_for_normal_nexts(statement, h.expr, h.async_nexts,
                                          h.normal_nexts, stack, st)
             ELSE IF h.async_nexts # {}
             THEN wait_for_async_nexts(h.async_nexts, stack, st)
             ELSE StatementOutcome(st, "NameError", NoWait)
    ELSE IF statement.type = "ClassDeclaration"
    THEN StatementOutcome(st, "TypeError", NoWait)
    ELSE StatementOutcome(st, "", NoWait)

\* ------------------------------------------------- equality and operators
\* A tri-state Boolean holds True, False or None (maybe).
Boolean(v) == [t |-> "Boolean", value |-> v]

\* What a function of the operator engine yields: a value, or the error
\* that leaves it.
Result(v) == [value |-> v, err |-> ""]
Fatal(e) == [value |-> None, err |-> e]

\* NUM_EQUALITY_RATIO = 0.1, as the fraction 1 / NUM_EQUALITY_RATIO_INVERSE
NUM_EQUALITY_RATIO_INVERSE == 10

\* The coercions of the builtin library, on the operands of the model: a
\* Number is its own number; a Boolean is its own tri-state, Undefined is
\* false, a Number is true unless it is zero.
db_to_number(v) == v
db_to_boolean(v) ==
    CASE v.t = "Boolean" -> v
      [] v.t = "Number" -> Boolean(IF v.value = 0 THEN "False" ELSE "True")
      [] OTHER -> Boolean("False")
db_not(b) ==
    Boolean(CASE b.value = "True" -> "False" [] b.value = "False" -> "True" [] OTHER -> "None")

\* bool(x) of Python
PyBool(x) == IF x THEN "True" ELSE "False"

\* The truth value Python gives an object that is tested by `if`: an
\* instance of a class that defines neither __bool__ nor __len__ is true,
\* whatever its fields hold.
truth_of_object(obj) == TRUE

\* numerator / denominator > NUM_EQUALITY_RATIO, the denominator not zero
ExceedsRatio(numerator, denominator) ==
    IF denominator > 0
    THEN NUM_EQUALITY_RATIO_INVERSE * numerator > denominator
    ELSE NUM_EQUALITY_RATIO_INVERSE * numerator < denominator

\* is_really_really_equal: `left is right`; same tells whether the two
\* operands are one instance
is_really_really_equal(left, right, same) == Boolean(PyBool(same))

\* is_really_equal, on numbers, booleans, keywords and Undefined
is_really_equal(left, right) ==
    IF left.t # right.t THEN Boolean("False")
    ELSE IF left.t \in {"Number", "String", "Boolean", "Keyword"}
    THEN Boolean(PyBool(left.value = right.value))
    ELSE IF left.t = "Undefined" THEN Boolean("True")
    ELSE Boolean("None")

\* is_less_than, on numbers, booleans, keywords and Undefined; False < True
is_less_than(left, right) ==
    IF left.t # right.t THEN Fatal("InterpretationError")
    ELSE IF left.t = "Boolean"
    THEN IF left.value = "None" \/ right.value = "None" THEN Result(Boolean("None"))
         ELSE Result(Boolean(PyBool(left.value = "False" /\ right.value = "True")))
    ELSE IF left.t = "Number" THEN Result(Boolean(PyBool(left.value < right.value)))
    ELSE IF left.t = "Undefined" THEN Result(Boolean("False"))
    ELSE IF left.t \in {"Keyword", "Object", "Function"} THEN Fatal("InterpretationError")
    ELSE Result(Boolean("None"))

\* is_approx_equal, on numbers, booleans and Undefined
is_approx_equal(left, right, same) ==
    IF is_really_really_equal(left, right, same).value = "True" THEN Boolean("True")
    ELSE IF left.t = "Number" /\ right.t = "Number"
    THEN LET left_num == db_to_number(left).value
             right_num == db_to_number(right).value
         IN  Boolean(PyBool(
                \/ left_num = right_num
                \/ IF left_num = 0 THEN FALSE
                   ELSE ExceedsRatio(left_num - right_num, left_num)))
    ELSE IF left.t = "Boolean" \/ right.t = "Boolean"
    THEN LET left_bool == db_to_boolean(left).value
             right_bool == db_to_boolean(right).value
         IN  IF left_bool = "None" \/ right_bool = "None" THEN Boolean("None")
             ELSE Boolean(PyBool(left_bool = right_bool))
    ELSE IF /\ db_to_boolean(left).value = db_to_boolean(right).value
            /\ db_to_boolean(left).value # "None"
    THEN Boolean("True")
    ELSE Boolean("None")

\* the OR case of perform_two_value_operation; coin is random.random() < 0.50
logical_or(left, right, coin) ==
    LET left_bool == db_to_boolean(left).value
        right_bool == db_to_boolean(right).value
    IN  CASE left_bool = "True" -> left
          [] left_bool = "False" -> right
          [] left_bool = "None" /\ right_bool = "True" -> right
          [] left_bool = "None" /\ right_bool = "False" -> left
          [] OTHER -> IF coin THEN left ELSE right

\* the AND case, were `case None, True` to yield the right operand
logical_and_maybe_true_is_right(left, right, coin) ==
    LET left_bool == db_to_boolean(left).value
    IN  CASE left_bool = "False" -> left
          [] OTHER -> right

\* the AND case of perform_two_value_operation
logical_and(left, right, coin) ==
    LET left_bool == db_to_boolean(left).value
        right_bool == db_to_boolean(right).value
    IN  CASE left_bool = "True" -> right
          [] left_bool = "False" -> left
          [] left_bool = "None" /\ right_bool = "True" -> left
          [] left_bool = "None" /\ right_bool = "False" -> right
          [] OTHER -> IF coin THEN left ELSE right

\* perform_two_value_operation, on the operators of the model.  The
\* arithmetic is that of two Numbers.  `if is_really_equal(left, right)`
\* tests the DreamberdBoolean it gets, an object.  `case OperatorType.LT,
\* OperatorType.GT` is a sequence pattern of two elements: an OperatorType
\* is no sequence, so neither LT nor GT has a case, the match ends without
\* returning and the function raises "Something went wrong here.".
perform_two_value_operation(left, right, operator, same, coin) ==
    CASE operator = "ADD" -> Result(Number(db_to_number(left).value + db_to_number(right).value))
      [] operator = "SUB" -> Result(Number(db_to_number(left).value - db_to_number(right).value))
      [] operator = "MUL" -> Result(Number(db_to_number(left).value * db_to_number(right).value))
      [] operator = "OR" -> Result(logical_or(left, right, coin))
      [] operator = "AND" -> Result(logical_and(left, right, coin))
      [] operator = "E" -> Result(is_approx_equal(left, right, same))
      [] operator = "EEE" -> Result(is_really_equal(left, right))
      [] operator = "NEE" -> Result(db_not(is_really_equal(left, right)))
      [] operator = "EEEE" -> Result(is_really_really_equal(left, right, same))
      [] operator = "NEEE" -> Result(db_not(is_really_really_equal(left, right, same)))
      [] operator \in {"GE", "LE"} ->
            IF truth_of_object(is_really_equal(left, right)) THEN Result(Boolean("True"))
            ELSE IF operator = "LE" THEN is_less_than(left, right)
            ELSE LET less == is_less_than(left, right)
                 IN  IF less.err # "" THEN less ELSE Result(db_not(less.value))
      [] OTHER -> Fatal("InterpretationError")

\* ------------------------------------------------- expression tree builder
\* build_expression_tree (src/dreamberd/processor/expression_tree.py).  A
\* token is its type and its text; a whitespace token's text is a run of
\* spaces, or the tab.  Indices are Python's: the first token is tokens[0].
Tok(type, value) == [type |-> type, value |-> value]
ExpressionNode(l, r, o) == [node |-> "ExpressionNode", left |-> l, right |-> r, operator |-> o]
IndexNode(v, i) == [node |-> "IndexNode", value |-> v, index |-> i]
Value(tok) == ValueNode(tok.value)

\* an exception leaves build_expression_tree
TreeError == [node |-> "Error"]

\* STR_TO_OPERATOR, on the operator texts of the model; the value of the
\* OperatorType of a text is that text
STR_TO_OPERATOR == [s \in {"+", "*", ","} |->
                        CASE s = "+" -> "ADD" [] s = "*" -> "MUL" [] OTHER -> "COM"]
IsOperator(tok) == tok.value \in DOMAIN STR_TO_OPERATOR
IsComma(tok) == tok.value = ","
HasTab(value) == value = "\t"
ValueStart == {"NAME", "L_SQUARE", "STRING"}

\* tokens[i], i from -len to len - 1, and tokens[a:b], 0 <= a and 0 <= b
Item(tokens, i) == IF i < 0 THEN tokens[Len(tokens) + i + 1] ELSE tokens[i + 1]
PySlice(tokens, a, b) == SubSeq(tokens, a + 1, IF b < Len(tokens) THEN b ELSE Len(tokens))
WithoutWhitespace(tokens) == SelectSeq(tokens, LAMBDA t : t.type # "WHITESPACE")
WidthOrZero(tok) == IF tok.type = "WHITESPACE" THEN Len(tok.value) ELSE 0
Layers(layers, tok) ==
    IF tok.type = "L_SQUARE" THEN layers + 1
    ELSE IF tok.type = "R_SQUARE" THEN layers - 1
    ELSE layers

\* `if r_len >= max_width`, were it `>`
wider_strictly(r_len, max_width) == r_len > max_width

\* `if r_len >= max_width` of the scan for the widest operator
wider(r_len, max_width) == r_len >= max_width

\* The scan of lines 81-101, from token i on: the width and the index of
\* the operator outside brackets with the widest whitespace after it; an
\* operator that ends the run, or one other than the comma with unequal
\* whitespace on its sides, is an error.
RECURSIVE ScanOperators(_, _, _, _, _)
ScanOperators(tokens, i, bracket_layers, max_width, max_index) ==
    IF i >= Len(tokens)
    THEN [max_width |-> max_width, max_index |-> max_index, err |-> FALSE]
    ELSE LET layers == Layers(bracket_layers, Item(tokens, i))
         IN  IF IsOperator(Item(tokens, i)) /\ layers = 0
             THEN IF i + 1 >= Len(tokens)
                  THEN [max_width |-> max_width, max_index |-> max_index, err |-> TRUE]
                  ELSE LET l_len == WidthOrZero(Item(tokens, i - 1))
                           r_len == WidthOrZero(Item(tokens, i + 1))
                       IN  IF l_len # r_len /\ ~IsComma(Item(tokens, i))
                           THEN [max_width |-> max_width, max_index |-> max_index,
                                 err |-> TRUE]
                           ELSE IF wider(r_len, max_width)
                           THEN ScanOperators(tokens, i + 1, layers, r_len, i)
                           ELSE ScanOperators(tokens, i + 1, layers, max_width, max_index)
             ELSE ScanOperators(tokens, i + 1, layers, max_width, max_index)

\* the test of lines 106-110, were its last comparison `>=`
is_single_argument_call_or_equal(tokens, max_width) ==
    LET first_name_index == IF tokens[1].type = "WHITESPACE" THEN 1 ELSE 0
    IN  /\ Len(tokens) >= 3 + first_name_index
        /\ Item(tokens, first_name_index).type = "NAME"
        /\ Item(tokens, first_name_index + 1).type = "WHITESPACE"
        /\ Item(tokens, first_name_index + 2).type \in ValueStart
        /\ Len(Item(tokens, first_name_index + 1).value) >= max_width

\* the test of lines 106-110: a name, whitespace wider than max_width, the
\* start of a value
is_single_argument_call(tokens, max_width) ==
    LET first_name_index == IF tokens[1].type = "WHITESPACE" THEN 1 ELSE 0
    IN  /\ Len(tokens) >= 3 + first_name_index
        /\ Item(tokens, first_name_index).type = "NAME"
        /\ Item(tokens, first_name_index + 1).type = "WHITESPACE"
        /\ Item(tokens, first_name_index + 2).type \in ValueStart
        /\ Len(Item(tokens, first_name_index + 1).value) > max_width

\* the bracket depth after tokens[0..i], as the loops of lines 152-156 and
\* 83-87 count it, from 0
RECURSIVE LayersAfter(_, _)
LayersAfter(tokens, i) ==
    IF i < 0 THEN 0 ELSE Layers(LayersAfter(tokens, i - 1), Item(tokens, i))

\* lines 128-136: the index in tokens_without_whitespace, from i on, of the
\* first token at which bracket_layers is 0 (-1 when there is none)
RECURSIVE FirstClose(_, _, _)
FirstClose(tww, i, bracket_layers) ==
    IF i >= Len(tww) THEN -1
    ELSE IF Layers(bracket_layers, Item(tww, i)) = 0 THEN i
    ELSE FirstClose(tww, i + 1, Layers(bracket_layers, Item(tww, i)))

\* lines 182-189: the index, from i down, of the first token at which
\* bracket_layers is 0 (-1 when there is none)
RECURSIVE FirstOpenBefore(_, _, _)
FirstOpenBefore(tokens, i, bracket_layers) ==
    IF i < 0 THEN -1
    ELSE IF Layers(bracket_layers, Item(tokens, i)) = 0 THEN i
    ELSE FirstOpenBefore(tokens, i - 1, Layers(bracket_layers, Item(tokens, i)))

\* a set of indices as the list Python builds by appending in a loop
RECURSIVE Ascending(_)
Ascending(S) ==
    IF S = {} THEN <<>>
    ELSE LET m == CHOOSE x \in S : \A y \in S : x <= y
         IN  <<m>> \o Ascending(S \ {m})

\* tokens[comma_index + 1 : next_index] for comma_index, next_index in
\* zip([first, *all_commas], [*all_commas, last])
Segments(tokens, first, all_commas, last) ==
    LET starts == <<first>> \o all_commas
        ends == all_commas \o <<last>>
    IN  [k \in 1..Len(starts) |-> PySlice(tokens, starts[k] + 1, ends[k])]

\* lines 152-160: the commas of a list whose whitespace is significant
ListCommas(tokens, l_width) ==
    { i \in 0..(Len(tokens) - 2) :
        /\ IsComma(Item(tokens, i))
        /\ LayersAfter(tokens, i) = 1
        /\ \/ l_width = 0
           \/ /\ l_width = Len(Item(tokens, i + 1).value)
              /\ Item(tokens, i + 1).type = "WHITESPACE" }

\* lines 205-209: the commas that separate the arguments of a call.  The
\* loop tests no bracket depth; with max_width not 0 a comma that ends the
\* run raises IndexError.
CallCommas(tokens, max_width) ==
    { i \in 0..(Len(tokens) - 1) :
        /\ IsComma(Item(tokens, i))
        /\ \/ max_width = 0
           \/ /\ i + 1 < Len(tokens)
              /\ Item(tokens, i + 1).type = "WHITESPACE"
              /\ Len(Item(tokens, i + 1).value) = max_width }
CallCommasRaise(tokens, max_width) ==
    /\ max_width # 0
    /\ IsComma(Item(tokens, Len(tokens) - 1))

RECURSIVE build_expression_tree(_)

\* a list comprehension of build_expression_tree: the first exception ends it
BuildAll(runs) ==
    LET built == [k \in DOMAIN runs |-> build_expression_tree(runs[k])]
    IN  [raised |-> \E k \in DOMAIN built : built[k] = TreeError, trees |-> built]

\* lines 126-174: a run that opens a bracket closed by its last token is a
\* list; None when it is not
BuildList(tokens, tww, starts_with_whitespace, ends_with_whitespace) ==
    IF FirstClose(tww, 1, 1) # Len(tww) - 1 THEN None
    ELSE LET l_width == WidthOrZero(Item(tokens, starts_with_whitespace + 1))
             r_width == WidthOrZero(Item(tokens, Len(tokens) - ends_with_whitespace - 2))
             all_commas == Ascending(ListCommas(tokens, l_width))
             elements ==
                 IF all_commas # <<>>
                 THEN BuildAll(Segments(tokens, starts_with_whitespace, all_commas,
                                        Len(tokens) - 1 - ends_with_whitespace))
                 ELSE BuildAll(<<PySlice(tokens, starts_with_whitespace + 1,
                                         Len(tokens) - ends_with_whitespace - 1)>>)
         IN  IF l_width # r_width THEN TreeError
             ELSE IF elements.raised THEN TreeError
             ELSE ListNode(elements.trees)

\* lines 179-191: a run that ends with a closing bracket is an index of
\* what precedes the bracket that opens it; None when there is none
BuildIndex(tokens, tww, starts_with_whitespace, ends_with_whitespace) ==
    IF Item(tww, -1).type # "R_SQUARE" THEN None
    ELSE LET end_index == Len(tokens) - ends_with_whitespace - 1
             i == FirstOpenBefore(tokens, end_index - 1, -1)
         IN  IF i = -1 THEN None
             ELSE LET parts == BuildAll(<<PySlice(tokens, starts_with_whitespace, i),
                                          PySlice(tokens, i + 1, end_index)>>)
                  IN  IF parts.raised THEN TreeError
                      ELSE IndexNode(parts.trees[1], parts.trees[2])

\* lines 115-193: a run without an operator outside brackets
BuildValue(tokens, tww, starts_with_whitespace, ends_with_whitespace) ==
    IF tww = <<>> THEN TreeError
    ELSE IF tww[1].type \notin ValueStart THEN TreeError
    ELSE LET list == IF tww[1].type = "L_SQUARE"
                     THEN BuildList(tokens, tww, starts_with_whitespace,
                                    ends_with_whitespace)
                     ELSE None
             index == BuildIndex(tokens, tww, starts_with_whitespace, ends_with_whitespace)
         IN  IF list # None THEN list
             ELSE IF index # None THEN index
             ELSE Value(tww[1])

\* lines 196-217: the widest operator is a comma, the run is a call
BuildCall(tokens, tww, starts_with_whitespace, max_width) ==
    IF tww[1].type # "NAME" \/ tww[2].type \notin ValueStart THEN TreeError
    ELSE IF CallCommasRaise(tokens, max_width) THEN TreeError
    ELSE LET all_commas == Ascending(CallCommas(tokens, max_width))
             args == BuildAll(Segments(tokens, starts_with_whitespace, all_commas,
                                       Len(tokens)))
         IN  IF args.raised THEN TreeError
             ELSE FunctionNode(tww[1].value, args.trees)

build_expression_tree(tokens) ==
    IF tokens = <<>> THEN TreeError
    ELSE IF \E k \in DOMAIN tokens :
                tokens[k].type = "WHITESPACE" /\ HasTab(tokens[k].value)
    THEN TreeError
    ELSE LET tww == WithoutWhitespace(tokens)
             starts_with_whitespace == IF tokens[1].type = "WHITESPACE" THEN 1 ELSE 0
             ends_with_whitespace == IF Item(tokens, -1).type = "WHITESPACE" THEN 1 ELSE 0
             scan == ScanOperators(tokens, 0, 0, 0, -1)
         IN  IF scan.err THEN TreeError
             ELSE IF is_single_argument_call(tokens, scan.max_width)
             THEN LET arg == BuildAll(<<PySlice(tokens, starts_with_whitespace + 1,
                                                Len(tokens))>>)
                  IN  IF arg.raised THEN TreeError
                      ELSE FunctionNode(Item(tokens, starts_with_whitespace).value,
                                        arg.trees)
             ELSE IF scan.max_index = -1
             THEN BuildValue(tokens, tww, starts_with_whitespace, ends_with_whitespace)
             ELSE IF IsComma(Item(tokens, scan.max_index))
             THEN BuildCall(tokens, tww, starts_with_whitespace, scan.max_width)
             ELSE LET sides == BuildAll(<<PySlice(tokens, 0, scan.max_index),
                                          PySlice(tokens, scan.max_index + 1, Len(tokens))>>)
                  IN  IF sides.raised THEN TreeError
                      ELSE ExpressionNode(sides.trees[1], sides.trees[2],
                                          STR_TO_OPERATOR[Item(tokens, scan.max_index).value])

\* ------------------------------------------------------------- Init
EmptyScope == [n \in Idents |-> NoBinding]

\* KEYWORDS.copy() of main(): every keyword spelling bound to its sentinel,
\* with the builtin library's print and the user bindings of the run.
GlobalScope ==
    [n \in Idents |->
        IF n \in KeywordNames THEN Name(Keyword(n))
        ELSE IF n = "print" THEN Name(Builtin(2, "print"))
        ELSE IF n = "k" THEN Name(Keyword("if"))
        ELSE IF n = "x" THEN Variable(<<Number(1)>>)
        ELSE NoBinding]

Bind(scope, n, b) == [scope EXCEPT ![n] = b]

\* The scope a call in progress has pushed on top of the global one
\* (evaluate_normal_function, line 43): parameters bound to arguments.
InnerScopes ==
    { Bind(Bind(EmptyScope, "x", Name(Number(7))), "if", Name(Keyword("when"))) }

InitHeaps == { <<GlobalScope>> } \cup { <<GlobalScope, s>> : s \in InnerScopes }

NoResult == [op |-> "none", err |-> ""]

\* The statement lists of the program text: the bodies functions are
\* defined with, and the lists interpret_code_statements is called on.
DefineG == FunctionDefinition(<<"function">>, "g", <<>>, 1, FALSE)
DefineGAsync == FunctionDefinition(<<"function", "async">>, "g", <<>>, 1, TRUE)
EmptyBody == 1
OneStatementBody == 2
TwoStatementBody == 3
UnresolvedBody == 4
ReturnBody == 5
ProgramCode ==
    << <<>>,
       << <<DefineG>> >>,
       << <<DefineG>>, <<DefineGAsync>> >>,
       << <<Conditional("x")>> >>,
       << <<ReturnStatement("return", ValueNode("1"))>> >> >>

Init ==
    /\ scopes \in InitHeaps
    /\ namespaces = [i \in 1..Len(scopes) |-> i]
    /\ async_statements = <<>>
    /\ code_lists = ProgramCode
    /\ name_watchers = [n \in Idents |-> None]
    /\ result = NoResult

\* ------------------------------------------------------------- actions
\* An exception is fatal: no operation follows one that raised.
Running == result.err = ""

Current == State(namespaces, scopes, async_statements, code_lists, name_watchers)

\* The state a call leaves becomes the interpreter state.
Becomes(st) ==
    /\ namespaces' = st.namespaces
    /\ scopes' = st.scopes
    /\ async_statements' = st.async_statements
    /\ code_lists' = st.code_lists
    /\ name_watchers' = st.name_watchers

WithinBounds(st) == Len(st.async_statements) <= MaxQueue

\* The names looked up: bound in one scope, in two, in none.
LookupNames == {"if", "x", "k", "g"}

\* A call of get_value_from_namespaces on the current scope stack.
GetValue ==
    /\ Running
    /\ \E val \in LookupNames :
        result' = [op |-> "get_value_from_namespaces", val |-> val, err |-> "",
                   binding |-> get_value_from_namespaces(val, namespaces, scopes)]
    /\ UNCHANGED <<namespaces, scopes, async_statements, code_lists, name_watchers>>

One == ValueNode("1")
Two == ValueNode("2")
NextX == FunctionNode("next", <<ValueNode("x")>>)
AwaitNextX == FunctionNode("await", <<NextX>>)

\* The candidate tuples handed to determine_statement_type.
CandidateTuples ==
    { <<Conditional("k"), WhenStatement("k")>>,
      <<WhenStatement("if"), Conditional("if")>>,
      <<Conditional("x")>>,
      <<FunctionDefinition(<<"k">>, "f", <<>>, EmptyBody, FALSE)>>,
      <<FunctionDefinition(<<"fn">>, "f", <<>>, EmptyBody, FALSE)>>,
      <<FunctionDefinition(<<"const">>, "f", <<>>, EmptyBody, FALSE),
        VariableAssignment("f", One)>>,
      <<FunctionDefinition(<<"function", "async">>, "h", <<>>, EmptyBody, TRUE)>>,
      <<FunctionDefinition(<<"function", "k">>, "h", <<>>, EmptyBody, TRUE)>>,
      <<VariableDeclaration(<<"const", "var">>, "a", One)>>,
      <<VariableDeclaration(<<"const", "const", "const">>, "a", One)>>,
      <<VariableDeclaration(<<"const", "const", "var">>, "a", One)>>,
      <<ExpressionStatement(One), VariableAssignment("a", One)>>,
      <<ExpressionStatement(One)>>,
      <<ReturnStatement("return", One)>> }

\* A call of determine_statement_type on the current scope stack.
DetermineStatementType ==
    /\ Running
    /\ \E possible \in CandidateTuples :
        result' = [op |-> "determine_statement_type", possible |-> possible, err |-> "",
                   statement |-> determine_statement_type(possible, namespaces, scopes)]
    /\ UNCHANGED <<namespaces, scopes, async_statements, code_lists, name_watchers>>

\* The statements handed to interpret_statement.
Statements ==
    { FunctionDefinition(<<"function">>, "f", <<"a">>, c, FALSE) :
          c \in {EmptyBody, TwoStatementBody, UnresolvedBody, ReturnBody} }
    \cup { FunctionDefinition(<<"function", "async">>, "h", <<"a">>, c, TRUE) :
          c \in {EmptyBody, TwoStatementBody} }
    \cup { VariableDeclaration(<<"const", "var">>, "a", NextX),
           VariableDeclaration(<<"const", "var">>, "a",
                               ListNode(<<NextX, FunctionNode("next", <<ValueNode("a")>>)>>)),
           VariableDeclaration(<<"const", "var">>, "a", AwaitNextX),
           VariableDeclaration(<<"const", "var">>, "a", One),
           VariableAssignment("k", ValueNode("when")),
           ClassDeclaration("class", "g", EmptyBody) }

\* A call of interpret_statement with the scope stack, the async queue and
\* the watcher registry.
InterpretStatement ==
    /\ Running
    /\ \E statement \in Statements :
        LET r == interpret_statement(statement, namespaces, Current)
        IN  /\ WithinBounds(r.st)
            /\ Becomes(r.st)
            /\ result' = [op |-> "interpret_statement", statement |-> statement,
                          err |-> r.err, wait |-> r.wait]

\* A call of interpret_code_statements on a statement list of the program.
InterpretCodeStatements ==
    /\ Running
    /\ \E code \in DOMAIN code_lists :
        LET r == interpret_code_statements(code, namespaces, Current)
        IN  /\ WithinBounds(r.st)
            /\ Becomes(r.st)
            /\ result' = [op |-> "interpret_code_statements", code |-> code,
                          err |-> r.err, value |-> r.value]

CallF(args) == FunctionNode("f", args)
CallH(args) == FunctionNode("h", args)
Await(e) == FunctionNode("await", <<e>>)

\* The expressions handed to evaluate_expression.
Expressions ==
    { One, ValueNode("x"), ValueNode("hi"),
      CallF(<<>>), CallF(<<One>>), CallF(<<One, Two>>), CallF(<<CallH(<<One>>)>>),
      CallH(<<One>>), CallH(<<One, Two>>),
      Await(CallH(<<One>>)), Await(CallF(<<One>>)),
      Await(FunctionNode("print", <<One>>)),
      Await(One), FunctionNode("await", <<>>),
      FunctionNode("await", <<CallH(<<One>>), CallH(<<Two>>)>>),
      Await(FunctionNode("x", <<One>>)), Await(Await(CallH(<<One>>))),
      FunctionNode("print", <<>>), FunctionNode("print", <<One>>),
      FunctionNode("print", <<One, Two>>), FunctionNode("print", <<One, Two, One>>),
      FunctionNode("x", <<One>>), FunctionNode("g", <<>>),
      ListNode(<<One, CallH(<<One>>)>>) }

\* A call of evaluate_expression with the scope stack and the async queue.
EvaluateExpression ==
    /\ Running
    /\ \E expr \in Expressions :
        LET r == evaluate_expression(expr, Current)
        IN  /\ WithinBounds(r.st)
            /\ Becomes(r.st)
            /\ result' = [op |-> "evaluate_expression", expr |-> expr, err |-> r.err,
                          value |-> r.value, native_calls |-> r.st.native_calls]

\* A reassignment of a Variable puts the new value in front of its history.
Reassigned(b, v) == Variable(<<v>> \o b.prev_values)

\* The variable x of the global scope is reassigned.
Reassign ==
    /\ Running
    /\ scopes[1]["x"].kind = "Variable"
    /\ Len(scopes[1]["x"].prev_values) < MaxHistory
    /\ \E v \in {Number(2)} :
        /\ scopes' = [scopes EXCEPT ![1]["x"] = Reassigned(@, v)]
        /\ result' = [op |-> "reassign", name |-> "x", err |-> ""]
    /\ UNCHANGED <<namespaces, async_statements, code_lists, name_watchers>>

\* The operands and operators handed to perform_two_value_operation.
Numbers == { Number(n) : n \in {-10, 0, 1, 9, 10, 11} }
SmallNumbers == { Number(n) : n \in {0, 1, 10} }
Booleans == { Boolean(v) : v \in {"True", "False", "None"} }
Operators == {"ADD", "SUB", "MUL", "OR", "AND", "E", "EEE", "NEE", "EEEE", "NEEE",
              "GE", "LE", "LT", "GT"}
OperandPairs(operator) ==
    CASE operator \in {"ADD", "SUB", "MUL"} -> SmallNumbers \X SmallNumbers
      [] operator \in {"OR", "AND"} ->
            (Booleans \cup {Number(0), Number(1), Undefined})
                \X (Booleans \cup {Number(0), Number(1), Undefined})
      [] operator = "E" ->
            (Numbers \X Numbers)
                \cup ((Booleans \cup {Undefined}) \X (Booleans \cup {Undefined}))
      [] OTHER ->
            (SmallNumbers \cup Booleans \cup {Undefined, Keyword("if")})
                \X (SmallNumbers \cup Booleans \cup {Undefined, Keyword("if")})

\* A call of perform_two_value_operation on two evaluated operands.  The
\* two may be one instance only if they are equal.
PerformTwoValueOperation ==
    /\ Running
    /\ \E operator \in Operators, same \in BOOLEAN, coin \in BOOLEAN :
       \E pair \in OperandPairs(operator) :
        LET r == perform_two_value_operation(pair[1], pair[2], operator, same, coin)
        IN  /\ same => pair[1] = pair[2]
            /\ result' = [op |-> "perform_two_value_operation", left |-> pair[1],
                          right |-> pair[2], operator |-> operator, same |-> same,
                          value |-> r.value, err |-> r.err]
    /\ UNCHANGED <<namespaces, scopes, async_statements, code_lists, name_watchers>>

\* The tokens of the runs handed to build_expression_tree.
Spaces(w) == CASE w = 1 -> " " [] w = 2 -> "  " [] w = 3 -> "   " [] OTHER -> "    "
Space(w) == Tok("WHITESPACE", Spaces(w))
Gap(w) == IF w = 0 THEN <<>> ELSE <<Space(w)>>
NameTok(s) == Tok("NAME", s)
Comma == Tok("COMMA", ",")
Plus == Tok("ADD", "+")
Times == Tok("MULTIPLY", "*")
LSquare == Tok("L_SQUARE", "[")
RSquare == Tok("R_SQUARE", "]")

\* An operator with the whitespace around it: a comma followed by w spaces,
\* a plus between w spaces on either side, a plus after one space only.
OperatorForms ==
    { <<Comma>> \o Gap(w) : w \in 0..MaxWidth }
    \cup { Gap(w) \o <<Plus>> \o Gap(w) : w \in 0..MaxWidth }
    \cup { <<Space(1), Plus>> }
Heads == { <<>>, <<NameTok("func"), Space(1)>>, <<NameTok("func"), Space(2)>> }
FirstOperands ==
    { <<NameTok("a")>>,
      <<LSquare, NameTok("a"), Comma, Space(1), NameTok("b"), RSquare>> }

\* func a, b  +  c
FuncABPlusC ==
    <<NameTok("func"), Space(1), NameTok("a"), Comma, Space(1), NameTok("b"),
      Space(2), Plus, Space(2), NameTok("c")>>

\* The token runs: an optional callee, one to three operands and the
\* operators between them; then the empty run, a tab, whitespace at the
\* ends, an index, an unclosed bracket, 2 * 1+3.
TokenRuns ==
    { h \o x : h \in Heads, x \in FirstOperands }
    \cup { h \o x \o o \o <<NameTok("b")>> :
              h \in Heads, x \in FirstOperands, o \in OperatorForms }
    \cup { h \o x \o o \o <<NameTok("b")>> \o p \o <<NameTok("c")>> :
              h \in Heads, x \in FirstOperands, o \in OperatorForms, p \in OperatorForms }
    \cup { <<>>,
           <<NameTok("a"), Tok("WHITESPACE", "\t"), NameTok("b")>>,
           <<Space(1), NameTok("a"), Space(1)>>,
           <<Space(1), LSquare, Space(1), NameTok("a"), Comma, Space(1), NameTok("b"),
             Space(1), RSquare, Space(1)>>,
           <<LSquare, Space(1), NameTok("a"), RSquare>>,
           <<NameTok("a"), LSquare, NameTok("b"), RSquare>>,
           <<NameTok("a"), Plus>>,
           <<LSquare, NameTok("a")>>,
           <<NameTok("2"), Space(1), Times, Space(1), NameTok("1"), Plus, NameTok("3")>> }

\* The run handed to build_expression_tree is drawn when the run begins.
TreeInit ==
    /\ scopes \in InitHeaps
    /\ namespaces = [i \in 1..Len(scopes) |-> i]
    /\ async_statements = <<>>
    /\ code_lists = ProgramCode
    /\ name_watchers = [n \in Idents |-> None]
    /\ \E tokens \in TokenRuns : result = [op |-> "tokens", tokens |-> tokens, err |-> ""]

\* A call of build_expression_tree on the token run.
BuildExpressionTree ==
    /\ result.op = "tokens"
    /\ LET tree == build_expression_tree(result.tokens)
       IN  result' = [op |-> "build_expression_tree", tokens |-> result.tokens,
                      tree |-> tree,
                      err |-> IF tree = TreeError THEN "InterpretationError" ELSE ""]
    /\ UNCHANGED <<namespaces, scopes, async_statements, code_lists, name_watchers>>

Next ==
    \/ GetValue
    \/ DetermineStatementType
    \/ InterpretStatement
    \/ InterpretCodeStatements
    \/ EvaluateExpression
    \/ Reassign

Spec == Init /\ [][Next]_vars

\* The lookups and resolutions, with the statements that change what they
\* find.
ResolveNext == GetValue \/ DetermineStatementType \/ InterpretStatement
ResolveSpec == Init /\ [][ResolveNext]_vars

\* The calls that evaluate expressions and run statement lists, with the
\* statements that define the functions they call.
CallNext == InterpretStatement \/ InterpretCodeStatements \/ EvaluateExpression
CallSpec == Init /\ [][CallNext]_vars

\* The statements that park on `next`, with the reassignments they wait for.
WatchNext == InterpretStatement \/ Reassign
WatchSpec == Init /\ [][WatchNext]_vars
FairWatchSpec == WatchSpec /\ WF_vars(WatchNext)

\* The resolver and the runs of statement lists, with the statements that
\* change what the resolver finds.
StatementNext == DetermineStatementType \/ InterpretCodeStatements \/ InterpretStatement
StatementSpec == Init /\ [][StatementNext]_vars

\* The expression tree builder on token runs.
TreeSpec == TreeInit /\ [][BuildExpressionTree]_vars

\* The operator engine on evaluated operands.
OperatorSpec == Init /\ [][PerformTwoValueOperation]_vars

\* ================================================================ claims
\* The binding of name in the innermost scope of the stack that binds it.
InnermostBinding(name) ==
    LET bound == { i \in 1..Len(namespaces) : scopes[namespaces[i]][name] # NoBinding }
    IN  IF bound = {} THEN NoBinding
        ELSE scopes[namespaces[CHOOSE i \in bound : \A j \in bound : j <= i]][name]

\* C1: a lookup returns the binding of the innermost scope that binds the
\* name, whatever the stack and the name.
C1_InnermostBindingWins ==
    result.op = "get_value_from_namespaces" => result.binding = InnermostBinding(result.val)

\* The queue entries that still have statements.
Live(i) == Len(code_lists[async_statements[i].code]) > 0
Remaining(cl, entry) == Len(cl[entry.code])
Min(a, b) == IF a < b THEN a ELSE b

\* Every candidate tuple of the list resolves to a function definition by a
\* keyword-anchored acceptance: a statement whose execution cannot fail.
OnlyDefinitions(code) ==
    \A i \in 1..Len(code_lists[code]) :
        LET st == determine_statement_type(code_lists[code][i], namespaces, scopes)
        IN  st # None /\ st.type = "FunctionDefinition"

\* C2: a run of interpret_code_statements over k top-level statements has
\* advanced every live queue entry by one statement per top-level statement
\* (by all it had, when it had fewer than k).
C2_RoundAdvancesEachLiveEntry ==
    [][ ( /\ result'.op = "interpret_code_statements"
          /\ OnlyDefinitions(result'.code) )
        => \A i \in 1..Len(async_statements) :
              /\ i <= Len(async_statements')
              /\ async_statements'[i] = async_statements[i]
              /\ Remaining(code_lists', async_statements'[i])
                   = Remaining(code_lists, async_statements[i])
                     - Min(Len(code_lists[result'.code]),
                           Remaining(code_lists, async_statements[i])) ]_vars

\* The callee of a call expression is bound to a user function.
CalleeIsFunction(expr, isAsync) ==
    LET b == get_value_from_namespaces(expr.name, namespaces, scopes)
    IN  /\ b # NoBinding
        /\ ValueOf(b).t = "Function"
        /\ ValueOf(b).is_async = isAsync
Callee(expr) == ValueOf(get_value_from_namespaces(expr.name, namespaces, scopes))
PlainArguments(expr) ==
    /\ \A i \in 1..Len(expr.args) : expr.args[i].node = "ValueNode"
    /\ Len(expr.args) <= Len(Callee(expr).args)

\* C3: a call of a synchronous user function whose body has several
\* statements, each one a definition, made while an async body is queued,
\* runs the whole body and returns, and no queue entry has advanced when it
\* ends.
C3_SyncCallRunsFullyWithoutAdvance ==
    [][ ( /\ result'.op = "evaluate_expression"
          /\ result'.expr.node = "FunctionNode"
          /\ CalleeIsFunction(result'.expr, FALSE)
          /\ PlainArguments(result'.expr)
          /\ Len(code_lists[Callee(result'.expr).code]) > 1
          /\ OnlyDefinitions(Callee(result'.expr).code)
          /\ \E i \in 1..Len(async_statements) : Live(i) )
        => /\ result'.err = ""
           /\ result'.value = Undefined
           /\ async_statements' = async_statements
           /\ namespaces' = namespaces ]_vars

\* The scope a call binds: each parameter that has an argument is bound to
\* the value of that argument, no other name is bound.
BindsParameters(scope, expr) ==
    \A n \in Idents :
        LET at == { i \in 1..Len(expr.args) : Callee(expr).args[i] = n }
        IN  IF at = {} THEN scope[n] = NoBinding
            ELSE \E i \in at :
                   scope[n] = Name(evaluate_expression(expr.args[i], Current).value)

UnawaitedAsyncCall(expr) ==
    /\ expr.node = "FunctionNode"
    /\ CalleeIsFunction(expr, TRUE)
    /\ PlainArguments(expr)

\* C4: an un-awaited call of an async user function returns Undefined,
\* runs nothing of the body (no statement list, scope or binding changes,
\* and no error of the body surfaces), and leaves the queue with exactly one
\* more entry, at its end: the function's body with the caller's scope
\* stack plus one new scope that binds the parameters to the arguments.
C4_AsyncCallOnlyEnqueues ==
    [][ (result'.op = "evaluate_expression" /\ UnawaitedAsyncCall(result'.expr))
        => /\ result'.err = ""
           /\ result'.value = Undefined
           /\ Len(async_statements') = Len(async_statements) + 1
           /\ SubSeq(async_statements', 1, Len(async_statements)) = async_statements
           /\ LET entry == async_statements'[Len(async_statements')]
              IN  /\ entry.code = Callee(result'.expr).code
                  /\ Front(entry.ns) = namespaces
                  /\ entry.ns[Len(entry.ns)] \notin DOMAIN scopes
                  /\ BindsParameters(scopes'[entry.ns[Len(entry.ns)]], result'.expr)
           /\ namespaces' = namespaces
           /\ code_lists' = code_lists
           /\ \A i \in DOMAIN scopes : scopes'[i] = scopes[i] ]_vars

\* C4 witness: an un-awaited call of an async function with a body of two
\* statements has returned and its entry is the last of the queue.
C4_Witness ==
    /\ result.op = "evaluate_expression"
    /\ result.err = ""
    /\ result.expr = CallH(<<One>>)
    /\ async_statements # <<>>
    /\ async_statements[Len(async_statements)].code = TwoStatementBody
    /\ scopes[async_statements[Len(async_statements)].ns[Len(namespaces) + 1]]["a"]
         = Name(Number(1))

AwaitedCall(expr) ==
    /\ expr.node = "FunctionNode"
    /\ get_value_from_namespaces(expr.name, namespaces, scopes) = Name(Keyword("await"))
    /\ Len(expr.args) = 1
    /\ expr.args[1].node = "FunctionNode"

\* C5: `await` of one call of an async function runs the body to its end
\* before the await has a value (the call returns), and appends no entry to
\* the queue.
C5_AwaitRunsBodyToCompletion ==
    [][ ( /\ result'.op = "evaluate_expression"
          /\ AwaitedCall(result'.expr)
          /\ CalleeIsFunction(result'.expr.args[1], TRUE)
          /\ PlainArguments(result'.expr.args[1])
          /\ OnlyDefinitions(Callee(result'.expr.args[1]).code) )
        => /\ result'.err = ""
           /\ async_statements' = async_statements ]_vars

\* An await that does not wrap exactly one call of an async user function.
AwaitMisuse(expr) ==
    /\ expr.node = "FunctionNode"
    /\ get_value_from_namespaces(expr.name, namespaces, scopes) = Name(Keyword("await"))
    /\ \/ Len(expr.args) # 1
       \/ expr.args[1].node # "FunctionNode"
       \/ ~CalleeIsFunction(expr.args[1], TRUE)

\* C6: an await that wraps anything but exactly one call of an async user
\* function ends in an error, and no native callable has been invoked.
C6_AwaitMisuseIsFatal ==
    [][ (result'.op = "evaluate_expression" /\ AwaitMisuse(result'.expr))
        => (result'.err # "" /\ result'.native_calls = <<>>) ]_vars

\* The statement parked under x has been resumed: it has left the registry,
\* or the variable it declares is bound.
Resumed ==
    \/ name_watchers["x"] = None
    \/ \E i \in 1..Len(namespaces) : scopes[namespaces[i]]["a"] # NoBinding

\* C7: a statement parked under x is resumed, eventually, once x has been
\* reassigned, unless a fatal error ends the run first.
C7_ParkedIsResumedAfterChange ==
    (result.op = "reassign" /\ name_watchers["x"] # None) ~> (Resumed \/ result.err # "")

\* C8: the wait of `await next X` is over only when the revision count of
\* every awaited name differs from the count read when the wait began.
C8_WaitEndsOnlyAfterChange ==
    (result.op = "interpret_statement" /\ DOMAIN result.wait # {})
        => \A n \in DOMAIN result.wait :
              result.wait[n].curr_len # result.wait[n].start_len

\* A spelling of "function": letters of the word, in its order, all of the
\* spelling and at least one.
IsFunctionSpelling(spelling) ==
    /\ Len(Chars(spelling)) > 0
    /\ MatchOptional(Chars("function"), Chars(spelling), 1, 1) = Len(Chars(spelling))

\* The keyword spelling the innermost binding of an identifier carries, ""
\* when it is bound to no keyword.
SpellingOf(name) ==
    LET b == get_value_from_namespaces(name, namespaces, scopes)
    IN  IF IsKeywordBinding(b) THEN ValueOf(b).value ELSE ""

\* C9: the resolver accepts a function-definition candidate only if its
\* first keyword slot carries a spelling of "function" and its second, if
\* any, "async".
C9_FunctionCandidateNeedsFunctionSpelling ==
    ( /\ result.op = "determine_statement_type"
      /\ result.statement # None
      /\ result.statement.type = "FunctionDefinition" )
    => /\ IsFunctionSpelling(SpellingOf(result.statement.keywords[1]))
       /\ Len(result.statement.keywords) = 2
            => SpellingOf(result.statement.keywords[2]) = "async"

\* C10: once the statement that reassigns k, bound to the keyword "if", to
\* the keyword "when" has been executed, the resolver takes the candidate
\* anchored on "when" through k, no longer the one anchored on "if".
C10_RebindingChangesAcceptedCandidate ==
    [][ ( /\ result.op = "interpret_statement"
          /\ result.statement = VariableAssignment("k", ValueNode("when"))
          /\ result.err = ""
          /\ result'.op = "determine_statement_type"
          /\ result'.possible = <<Conditional("k"), WhenStatement("k")>> )
        => result'.statement = WhenStatement("k") ]_vars

Abs(n) == IF n < 0 THEN -n ELSE n

\* A call of perform_two_value_operation with operator on two Numbers that
\* are two instances.
OnNumbers(operator) ==
    /\ result.op = "perform_two_value_operation"
    /\ result.operator = operator
    /\ result.left.t = "Number"
    /\ result.right.t = "Number"
    /\ ~result.same

\* A call of a builtin whose arguments are names or literals.
BuiltinCall(expr) ==
    /\ expr.node = "FunctionNode"
    /\ get_value_from_namespaces(expr.name, namespaces, scopes) # NoBinding
    /\ Callee(expr).t = "Builtin"
    /\ \A i \in 1..Len(expr.args) : expr.args[i].node = "ValueNode"
ArgumentValues(expr) ==
    [i \in 1..Len(expr.args) |-> evaluate_expression(expr.args[i], Current).value]

\* C15: a builtin called with fewer arguments than its arity returns, and
\* its native callable has received the values of exactly those arguments,
\* in order, once; called with more arguments than its arity the call is
\* an error and the native callable has not been invoked.
C15_BuiltinArity ==
    [][ (result'.op = "evaluate_expression" /\ BuiltinCall(result'.expr))
        => LET expr == result'.expr
           IN  /\ Len(expr.args) < Callee(expr).arg_count
                    => /\ result'.err = ""
                       /\ result'.native_calls = <<ArgumentValues(expr)>>
               /\ Len(expr.args) > Callee(expr).arg_count
                    => /\ result'.err # ""
                       /\ result'.native_calls = <<>> ]_vars

\* C15 witness: print, of arity two, has been called with the one argument
\* 1 and has received the Number 1 alone.
C15_Witness ==
    /\ result.op = "evaluate_expression"
    /\ result.expr = FunctionNode("print", <<One>>)
    /\ result.err = ""
    /\ result.native_calls = << <<Number(1)>> >>

\* C11: for two distinct Number instances a and b, approximate equality is
\* true exactly when a = b, or a is not zero and |(a - b) / a| <= 0.1.
C11_ApproxEqualWithinTenPercent ==
    OnNumbers("E")
    => LET a == result.left.value
           b == result.right.value
           near == a # 0 /\ NUM_EQUALITY_RATIO_INVERSE * Abs(a - b) <= Abs(a)
       IN  /\ result.err = ""
           /\ result.value = Boolean(PyBool(a = b \/ near))

\* The operand the tri-state lattice chooses: "left", "right" or "either".
LatticeChoice(operator, left_bool, right_bool) ==
    IF operator = "AND"
    THEN CASE left_bool = "True" -> "right"
           [] left_bool = "False" -> "left"
           [] right_bool = "False" -> "right"
           [] right_bool = "True" -> "left"
           [] OTHER -> "either"
    ELSE CASE left_bool = "True" -> "left"
           [] left_bool = "False" -> "right"
           [] right_bool = "True" -> "right"
           [] right_bool = "False" -> "left"
           [] OTHER -> "either"

\* C12: AND and OR return one of their two operands, the one the lattice
\* chooses by the tri-state of the operands; maybe with maybe returns either.
C12_LogicReturnsOperandOfLattice ==
    (result.op = "perform_two_value_operation" /\ result.operator \in {"AND", "OR"})
    => LET choice == LatticeChoice(result.operator,
                                   db_to_boolean(result.left).value,
                                   db_to_boolean(result.right).value)
       IN  /\ result.err = ""
           /\ choice = "left" => result.value = result.left
           /\ choice = "right" => result.value = result.right
           /\ choice = "either" => result.value \in {result.left, result.right}

\* C12 witness: AND of maybe and a true Number has returned the maybe, its
\* left operand.
C12_Witness ==
    /\ result.op = "perform_two_value_operation"
    /\ result.operator = "AND"
    /\ result.left = Boolean("None")
    /\ result.right = Number(1)
    /\ result.value = Boolean("None")

\* C13: >= and <= are true for structurally equal operands; for two Numbers
\* that are not equal they are the ordering, so a >= b is false when a < b
\* and a <= b is false when a > b.
C13_OrderingOrEqualFallsBackToOrdering ==
    /\ (result.op = "perform_two_value_operation" /\ result.operator \in {"GE", "LE"}
          /\ is_really_equal(result.left, result.right).value = "True")
       => (result.err = "" /\ result.value = Boolean("True"))
    /\ OnNumbers("GE")
       => (result.err = "" /\ result.value
                                = Boolean(PyBool(result.left.value >= result.right.value)))
    /\ OnNumbers("LE")
       => (result.err = "" /\ result.value
                                = Boolean(PyBool(result.left.value <= result.right.value)))

\* C14: a < b on two Numbers is the Boolean of a < b, and no error.
C14_LessThanOnNumbers ==
    OnNumbers("LT")
    => /\ result.err = ""
       /\ result.value = Boolean(PyBool(result.left.value < result.right.value))

\* The leaves and trees of the runs.
Leaf(s) == ValueNode(s)

\* C16 as claimed: func a, b  +  c is built as the call func(a, b+c).
C16_CallTakesTheSum ==
    (result.op = "build_expression_tree" /\ result.tokens = FuncABPlusC)
    => result.tree = FunctionNode("func", <<Leaf("a"), ExpressionNode(Leaf("b"), Leaf("c"), "ADD")>>)

\* C16 amended: func a, b  +  c is built as the sum func(a, b) + c, split at
\* the +, whose whitespace is the widest.
C16_SumOfCallAndC ==
    (result.op = "build_expression_tree" /\ result.tokens = FuncABPlusC)
    => result.tree = ExpressionNode(FunctionNode("func", <<Leaf("a"), Leaf("b")>>),
                                    Leaf("c"), "ADD")

\* C16 witness: the run func a, b  +  c has been built into a tree.
C16_Witness ==
    /\ result.op = "build_expression_tree"
    /\ result.tokens = FuncABPlusC
    /\ result.tree # TreeError

\* The bracket depth at token i: the brackets opened less those closed in
\* tokens[0..i].
DepthAt(tokens, i) ==
    Cardinality({ j \in 0..i : Item(tokens, j).type = "L_SQUARE" })
        - Cardinality({ j \in 0..i : Item(tokens, j).type = "R_SQUARE" })
TopOperators(tokens) ==
    { i \in 0..(Len(tokens) - 1) : IsOperator(Item(tokens, i)) /\ DepthAt(tokens, i) = 0 }
TrailingWidth(tokens, i) ==
    IF i + 1 < Len(tokens) THEN WidthOrZero(Item(tokens, i + 1)) ELSE 0

\* The operator outside brackets with the widest whitespace after it, the
\* later one of two that are as wide.
Widest(tokens) ==
    CHOOSE i \in TopOperators(tokens) :
        \A j \in TopOperators(tokens) :
            \/ TrailingWidth(tokens, j) < TrailingWidth(tokens, i)
            \/ TrailingWidth(tokens, j) = TrailingWidth(tokens, i) /\ j <= i

\* The run begins, after its leading whitespace, with a name, whitespace
\* wider than width and the start of a value.
SingleArgumentShape(tokens, width) ==
    LET run == IF tokens[1].type = "WHITESPACE" THEN Tail(tokens) ELSE tokens
    IN  /\ Len(run) >= 3
        /\ run[1].type = "NAME"
        /\ run[2].type = "WHITESPACE" /\ Len(run[2].value) > width
        /\ run[3].type \in ValueStart

\* A run with an operator outside brackets has been built into a tree.
BuiltWithOperator ==
    /\ result.op = "build_expression_tree"
    /\ result.tree # TreeError
    /\ TopOperators(result.tokens) # {}

\* The root the widest operator k determines: the expression split at k, or
\* for a comma a call with several arguments.
RootOfOperator(tokens, tree, k) ==
    IF IsComma(Item(tokens, k))
    THEN /\ tree.node = "FunctionNode"
         /\ tree.name = WithoutWhitespace(tokens)[1].value
         /\ Len(tree.args) >= 2
    ELSE /\ tree.node = "ExpressionNode"
         /\ tree.operator = STR_TO_OPERATOR[Item(tokens, k).value]
         /\ tree.left = build_expression_tree(PySlice(tokens, 0, k))
         /\ tree.right = build_expression_tree(PySlice(tokens, k + 1, Len(tokens)))

\* C17 as claimed: the root of the tree of a run with an operator outside
\* brackets is determined by the widest such operator (the later of equals);
\* the single-argument call plays no part.
C17_RootIsTheWidestOperator ==
    BuiltWithOperator
    => RootOfOperator(result.tokens, result.tree, Widest(result.tokens))

\* C17 amended: the single-argument call comes first: a run that begins
\* with a name, whitespace wider than that after the widest operator and the
\* start of a value is the call of that name on the rest of the run; any
\* other run with an operator outside brackets has the root its widest
\* operator determines.
C17_SingleArgumentCallThenWidestOperator ==
    BuiltWithOperator
    => LET tokens == result.tokens
           k == Widest(tokens)
           first_name_index == IF tokens[1].type = "WHITESPACE" THEN 1 ELSE 0
       IN  IF SingleArgumentShape(tokens, TrailingWidth(tokens, k))
           THEN /\ result.tree.node = "FunctionNode"
                /\ result.tree.name = Item(tokens, first_name_index).value
                /\ result.tree.args
                     = <<build_expression_tree(
                            PySlice(tokens, first_name_index + 1, Len(tokens)))>>
           ELSE RootOfOperator(tokens, result.tree, k)

\* C17 witness: func  a+b, a name and two spaces before a sum without
\* spaces, has been built as the call func(a+b).
C17_Witness ==
    /\ result.op = "build_expression_tree"
    /\ result.tokens = <<NameTok("func"), Space(2), NameTok("a"), Plus, NameTok("b")>>
    /\ result.tree = FunctionNode("func", <<ExpressionNode(Leaf("a"), Leaf("b"), "ADD")>>)

\* C18: when the widest operator is a comma (and the run is no
\* single-argument call), the call has one argument more than there are
\* commas outside brackets with that width after them: a comma inside
\* brackets separates no arguments.
C18_OnlyTopLevelCommasSeparate ==
    ( /\ BuiltWithOperator
      /\ IsComma(Item(result.tokens, Widest(result.tokens)))
      /\ ~SingleArgumentShape(result.tokens,
                              TrailingWidth(result.tokens, Widest(result.tokens))) )
    => LET tokens == result.tokens
           separators == { i \in TopOperators(tokens) :
                             /\ IsComma(Item(tokens, i))
                             /\ TrailingWidth(tokens, i)
                                  = TrailingWidth(tokens, Widest(tokens)) }
       IN  /\ result.tree.node = "FunctionNode"
           /\ Len(result.tree.args) = Cardinality(separators) + 1

\* The queue entries whose remaining statement list is empty.
EmptyEntries == { i \in 1..Len(async_statements) : ~Live(i) }

\* C19: after a run of interpret_code_statements over a statement list that
\* has a statement, the point at which a scheduler round is due, the async
\* queue holds no entry whose remaining statement list is empty.
C19_NoEmptyEntryAfterRound ==
    ( /\ result.op = "interpret_code_statements"
      /\ Len(code_lists[result.code]) > 0 )
        => EmptyEntries = {}

\* The revision count of an identifier: what get_state_watcher reads of its
\* innermost binding on the current scope stack.
RevisionCount(name) ==
    get_state_watcher(get_value_from_namespaces(name, namespaces, scopes))

ParkedUnder(nw, name) ==
    IF nw[name] = None THEN {}
    ELSE { nw[name].statements[i] : i \in 1..Len(nw[name].statements) }

\* C20: a statement parked in the watcher registry under an identifier is
\* still in the entry of that identifier after every step that leaves the
\* identifier's revision count as it was, a step that parks another
\* statement under the same identifier included.
C20_ParkedStaysUntilRevision ==
    [][ \A name \in Idents :
          RevisionCount(name)' = RevisionCount(name)
            => ParkedUnder(name_watchers, name) \subseteq ParkedUnder(name_watchers', name)
      ]_vars

\* No candidate of the tuple is accepted by its keywords on the current
\* scope stack.
NoneAnchored(possible) ==
    \A i \in 1..Len(possible) : ~AcceptsKeywordAnchored(possible[i], namespaces, scopes)

OfType(possible, type) == { i \in 1..Len(possible) : possible[i].type = type }
Least(S) == CHOOSE i \in S : \A j \in S : i <= j

\* The statement the fallback order names: the assignment candidate, else
\* the bare-expression candidate, else none.
FallbackOf(possible) ==
    IF OfType(possible, "VariableAssignment") # {}
    THEN possible[Least(OfType(possible, "VariableAssignment"))]
    ELSE IF OfType(possible, "ExpressionStatement") # {}
    THEN possible[Least(OfType(possible, "ExpressionStatement"))]
    ELSE None

\* C21: when no candidate of a tuple is accepted by its keywords, the
\* resolver returns the assignment candidate if the tuple has one, whatever
\* its position, otherwise the bare-expression candidate, otherwise no
\* statement; and a run of interpret_code_statements whose statement
\* resolves to no statement ends in a fatal error with the scope stack, the
\* scopes, the async queue, the statement lists and the watcher registry as
\* they were.
C21_FallbackToAssignmentThenExpression ==
    [][ /\ ( /\ result'.op = "determine_statement_type"
             /\ NoneAnchored(result'.possible) )
           => result'.statement = FallbackOf(result'.possible)
        /\ ( /\ result'.op = "interpret_code_statements"
             /\ Len(code_lists[result'.code]) > 0
             /\ NoneAnchored(code_lists[result'.code][1])
             /\ FallbackOf(code_lists[result'.code][1]) = None )
           => /\ result'.err = "InterpretationError"
              /\ UNCHANGED <<namespaces, scopes, async_statements, code_lists,
                             name_watchers>> ]_vars

\* C21 witness: an assignment candidate that stands behind a bare-expression
\* candidate has been returned, no candidate being accepted by its keywords.
C21_Witness ==
    /\ result.op = "determine_statement_type"
    /\ NoneAnchored(result.possible)
    /\ Len(result.possible) = 2
    /\ result.possible[1].type = "ExpressionStatement"
    /\ result.statement = result.possible[2]
    /\ result.statement.type = "VariableAssignment"

\* A statement list whose statement resolves to no statement has ended a run
\* of interpret_code_statements.
C21_NoStatementIsFatal ==
    /\ result.op = "interpret_code_statements"
    /\ Len(code_lists[result.code]) > 0
    /\ FallbackOf(code_lists[result.code][1]) = None
    /\ NoneAnchored(code_lists[result.code][1])
    /\ result.err = "InterpretationError"

\* The statement list a user function was defined with holds a statement
\* that resolves to a return statement.
ReturnsIn(code) ==
    { i \in 1..Len(code_lists[code]) :
        LET st == determine_statement_type(code_lists[code][i], namespaces, scopes)
        IN  st # None /\ st.type = "ReturnStatement" }

\* expr is a call of a synchronous user function that has returned.
SyncCallReturned(expr, err) ==
    /\ expr.node = "FunctionNode"
    /\ CalleeIsFunction(expr, FALSE)
    /\ err = ""

ReturnedValue(code) ==
    LET i == Least(ReturnsIn(code))
        st == determine_statement_type(code_lists[code][i], namespaces, scopes)
    IN  evaluate_expression(st.expression, Current).value

\* C23: a run of interpret_code_statements over a list whose first statement
\* is `return e` returns the value of e, and a call of a synchronous user
\* function with that body evaluates to the value of e.
C23_ReturnYieldsValueOfExpression ==
    [][ /\ ( /\ result'.op = "interpret_code_statements"
             /\ 1 \in ReturnsIn(result'.code) )
           => /\ result'.err = ""
              /\ result'.value = ReturnedValue(result'.code)
        /\ ( /\ result'.op = "evaluate_expression"
             /\ result'.expr.node = "FunctionNode"
             /\ CalleeIsFunction(result'.expr, FALSE)
             /\ PlainArguments(result'.expr)
             /\ 1 \in ReturnsIn(Callee(result'.expr).code) )
           => /\ result'.err = ""
              /\ result'.value = ReturnedValue(Callee(result'.expr).code) ]_vars

\* The function value the definitions of a statement list leave bound to a
\* name: that of the last definition of the name in the list.
LastDefinition(code, name) ==
    LET defs == { i \in 1..Len(code_lists[code]) :
                    determine_statement_type(code_lists[code][i], namespaces, scopes).name
                        = name }
        i == CHOOSE i \in defs : \A j \in defs : j <= i
        st == determine_statement_type(code_lists[code][i], namespaces, scopes)
    IN  IF defs = {} THEN NoBinding
        ELSE Name(Function(st.args, st.code, st.is_async))

\* C24: with an empty async queue, a run of interpret_code_statements over a
\* list of statements that each execute without error (function
\* definitions) returns, every statement having been executed in order: the
\* innermost scope binds each defined name to the function of its last
\* definition in the list.
C24_RunExecutesEveryStatementAndReturns ==
    [][ ( /\ result'.op = "interpret_code_statements"
          /\ async_statements = <<>>
          /\ OnlyDefinitions(result'.code) )
        => /\ result'.err = ""
           /\ \A name \in Idents :
                 LastDefinition(result'.code, name) # NoBinding
                    => scopes'[namespaces[Len(namespaces)]][name]
                         = LastDefinition(result'.code, name) ]_vars

\* The statement list of queue entry i as the program text has it.
StoredBody(entry) == ProgramCode[entry.code]

\* C25: a run of interpret_code_statements over a list of definitions, made
\* while the body of an un-awaited async call is queued with statements
\* left, advances the queue entry and leaves the statement list the function
\* was defined with as the program text has it.
C25_AdvanceLeavesStoredBody ==
    [][ ( /\ result'.op = "interpret_code_statements"
          /\ Len(code_lists[result'.code]) > 0
          /\ OnlyDefinitions(result'.code) )
        => \A i \in 1..Len(async_statements) :
              Live(i)
                => /\ i <= Len(async_statements')
                   /\ async_statements'[i] = async_statements[i]
                   /\ Remaining(code_lists', async_statements'[i])
                        < Remaining(code_lists, async_statements[i])
                   /\ code_lists'[async_statements[i].code]
                        = StoredBody(async_statements[i]) ]_vars

====
